---------------------------- MODULE Spec2Model ----------------------------
(***************************************************************************)
(* Portfolio Visualizer (src/app.py): the valuation and aggregation engine *)
(* update_total_worth_graph, reset_total_worth, and the two handlers that  *)
(* mutate the holdings list, on_add_click and delete_asset.                *)
(*                                                                         *)
(* Numbers.  Python floats are modelled by integers; every input is chosen *)
(* so that the arithmetic of the code is exact on it (instrument closes    *)
(* are multiples of 100, so the pence division by 100 is exact).  NaN, the *)
(* value pandas gives a price date that has no FX rate on or before it, is *)
(* a value of its own.  Calendar dates are day numbers.                    *)
(*                                                                         *)
(* A pandas Series is a sequence of records [d |-> date, v |-> value] in   *)
(* index order.                                                            *)
(***************************************************************************)
EXTENDS Integers, Sequences, FiniteSets, TLC

\* The day datetime.date.today() returns during the session.
MaxDay == 2
\* The longest holdings list explored.
MaxAssets == 2

Today == MaxDay
Tomorrow == Today + 1
Days == 0..Tomorrow

\* download_close answers None instead of an empty series (lines 155, 163).
None == <<>>
NaN == -999999

-----------------------------------------------------------------------------
(* The market-data collaborator (yfinance), as seen through its answers.   *)

\* Tickers the collaborator knows, one per native currency.
Tickers == {"NESN", "AAPL", "VOD"}

\* info["currency"] of a ticker.
InfoCurrency(ticker) ==
    CASE ticker = "NESN" -> "CHF"
      [] ticker = "AAPL" -> "USD"
      [] ticker = "VOD"  -> "GBp"
      [] OTHER           -> ""

\* The daily close of an instrument on day d, in its native quotation unit.
NativeClose(d) == 100 * (d + 1)

\* The close of <ccy>CHF=X on day d.
FxClose(ccy, d) == IF ccy = "USD" THEN 2 + d ELSE 5 + d

\* The sets of days on which a download may hold bars; {} is an empty answer.
BarShapes == {{}, Days, {d \in Days : d % 2 = 0 /\ d <= Today}, {1}}
FxShapes == {{}, Days, {1}}

-----------------------------------------------------------------------------
(* pandas Series helpers                                                   *)

Mul(a, b) == IF a = NaN \/ b = NaN THEN NaN ELSE a * b

Index(s) == {s[i].d : i \in 1..Len(s)}

Min(S) == CHOOSE x \in S : \A y \in S : x <= y
Max(S) == CHOOSE x \in S : \A y \in S : y <= x

\* A series over the dates S with values f[d], in ascending date order.
RECURSIVE SeriesOver(_, _)
SeriesOver(S, f) ==
    IF S = {} THEN <<>>
    ELSE LET m == Min(S)
         IN  <<[d |-> m, v |-> f[m]]>> \o SeriesOver(S \ {m}, f)

\* Series.sort_index(): a stable sort by date.
RECURSIVE InsertByDate(_, _)
InsertByDate(sorted, r) ==
    IF sorted = <<>> THEN <<r>>
    ELSE IF Head(sorted).d <= r.d
         THEN <<Head(sorted)>> \o InsertByDate(Tail(sorted), r)
         ELSE <<r>> \o sorted

RECURSIVE sort_index(_)
sort_index(s) ==
    IF s = <<>> THEN <<>>
    ELSE InsertByDate(sort_index(SubSeq(s, 1, Len(s) - 1)), s[Len(s)])

\* Series.loc[d] = x: overwrite the entry of d, or append one at the end.
SetLoc(s, d, x) ==
    IF d \in Index(s)
    THEN [i \in 1..Len(s) |-> IF s[i].d = d THEN [d |-> d, v |-> x] ELSE s[i]]
    ELSE Append(s, [d |-> d, v |-> x])

\* The value a forward fill gives date d: the last non-NaN value on or before d.
Ffill(s, d) ==
    LET known == {i \in 1..Len(s) : s[i].d <= d /\ s[i].v # NaN}
    IN  IF known = {} THEN NaN
        ELSE s[CHOOSE i \in known : \A j \in known : s[j].d <= s[i].d].v

fillna0(x) == IF x = NaN THEN 0 ELSE x

-----------------------------------------------------------------------------
(* Retrieval helpers, lines 142-220.  An answer of the collaborator is the  *)
(* set of days it holds bars for; the helpers turn it into a Series.        *)

\* download_close(ticker, start=, end=): the closes inside the window, None
\* when the request failed or nothing is left.
download_close(bars, start_date, end_date) ==
    SeriesOver({d \in bars : start_date <= d /\ d <= end_date},
               [d \in Days |-> NativeClose(d)])

_normalize_ccy(ccy) ==
    IF ccy = "" THEN "CHF"
    ELSE IF ccy = "GBp" THEN "GBP"
    ELSE ccy

\* info is "ok" or "error" (yf.Ticker(...).info raised).
get_ticker_currency(ticker, info) ==
    IF info = "error" THEN "CHF" ELSE _normalize_ccy(InfoCurrency(ticker))

\* get_fx_series_to_chf: [raised |-> TRUE] stands for the ValueError of line 218.
get_fx_series_to_chf(from_ccy, bars, start_date, end_date) ==
    LET ccy == _normalize_ccy(from_ccy)
        fx  == SeriesOver({d \in bars : start_date <= d /\ d <= end_date},
                          [d \in Days |-> FxClose(ccy, d)])
    IN  IF ccy = "CHF"
        THEN [raised |-> FALSE,
              fx |-> SeriesOver(start_date..end_date, [d \in Days |-> 1])]
        ELSE IF fx = None
             THEN [raised |-> TRUE, fx |-> None]
             ELSE [raised |-> FALSE, fx |-> fx]

-----------------------------------------------------------------------------
(* HoldingValuator: the body of the loop of update_total_worth_graph,      *)
(* lines 348-392, for one holding a and the collaborator's answers ans =   *)
(* [bars, info, fx] to the calls the body makes.  The result says how the  *)
(* body ended ("skip": continue, "raise": the ValueError of line 218       *)
(* leaves the function, "ok": a series was appended), with the series and  *)
(* the retrieval calls made, in order.                                     *)

Call(fn, arg) == [fn |-> fn, arg |-> arg]

\* Series.reindex(index): the values at the dates of `index`, NaN where the
\* series has none.
Reindex(s, index) ==
    [i \in 1..Len(index) |->
        [d |-> index[i].d,
         v |-> IF index[i].d \in Index(s)
               THEN s[CHOOSE j \in 1..Len(s) : s[j].d = index[i].d].v
               ELSE NaN]]

\* Series.ffill().
FfillSeries(s) == [i \in 1..Len(s) |-> [d |-> s[i].d, v |-> Ffill(s, s[i].d)]]

\* Lines 374-375: fx = fx.reindex(close.index).ffill(); close = close * fx.
TimesFx(close, fx) ==
    [i \in 1..Len(close) |-> [d |-> close[i].d, v |-> Mul(close[i].v, fx[i].v)]]

ConvertToChf(close, fx) == TimesFx(close, FfillSeries(Reindex(fx, close)))

\* value[value.index >= p_ts], line 381.
TrimToPurchase(value, p_ts) == SelectSeq(value, LAMBDA r : r.d >= p_ts)

\* AnchorAtPurchase without the sort_index of line 387.
AnchorAtPurchase_unsorted(value, a) ==
    IF a.price > 0
    THEN SetLoc(value, a.purchase_date, a.shares * a.price)
    ELSE value

\* Lines 383-387: the first value is forced to the purchase value.
AnchorAtPurchase(value, a) ==
    IF a.price > 0
    THEN sort_index(SetLoc(value, a.purchase_date, a.shares * a.price))
    ELSE value

\* Lines 389-392: an empty series is not appended.
AppendIfAny(anchored, made) ==
    IF Len(anchored) = 0
    THEN [st |-> "skip", value |-> <<>>, calls |-> made]
    ELSE [st |-> "ok", value |-> anchored, calls |-> made]

\* Line 377: value = close * shares.
TimesShares(inChf, shares) ==
    [i \in 1..Len(inChf) |-> [d |-> inChf[i].d, v |-> Mul(inChf[i].v, shares)]]

\* Lines 377-392, for the closes in CHF: value, trim, anchor, append.
ValueOfCloses(a, inChf, made) ==
    AppendIfAny(AnchorAtPurchase(
                    TrimToPurchase(TimesShares(inChf, a.shares), a.purchase_date), a),
                made)

\* Lines 371-375, for the answer of get_fx_series_to_chf.
ConvertWith(a, close, got, made) ==
    IF got.raised
    THEN [st |-> "raise", value |-> <<>>, calls |-> made]
    ELSE ValueOfCloses(a, ConvertToChf(close, got.fx), made)

\* Lines 369-375, for the closes downloaded and the currency found.
ConvertCloses(a, ans, close, asset_ccy, start_date, end_date, made) ==
    IF asset_ccy # "CHF"
    THEN ConvertWith(a, close,
                     get_fx_series_to_chf(asset_ccy, ans.fx, start_date, end_date),
                     Append(made, Call("get_fx_series_to_chf", asset_ccy)))
    ELSE ValueOfCloses(a, close, made)

\* Lines 361-367, for the closes downloaded.
ValueOfDownload(a, ans, close, start_date, end_date, made) ==
    IF close = None
    THEN [st |-> "skip", value |-> <<>>, calls |-> made]
    ELSE ConvertCloses(a, ans, close, get_ticker_currency(a.ticker, ans.info),
                       start_date, end_date,
                       Append(made, Call("get_ticker_currency", a.ticker)))

\* HoldingValue that skips negative share counts only.
HoldingValue_zero_shares(a, ans, start_date, end_date) ==
    IF a.ticker = "" \/ a.shares < 0
    THEN [st |-> "skip", value |-> <<>>, calls |-> <<>>]
    ELSE ValueOfDownload(a, ans, download_close(ans.bars, start_date, end_date),
                         start_date, end_date,
                         <<Call("download_close", a.ticker)>>)

HoldingValue(a, ans, start_date, end_date) ==
    IF a.ticker = "" \/ a.shares <= 0
    THEN [st |-> "skip", value |-> <<>>, calls |-> <<>>]
    ELSE ValueOfDownload(a, ans, download_close(ans.bars, start_date, end_date),
                         start_date, end_date,
                         <<Call("download_close", a.ticker)>>)

\* Lines 336-345: the query window.
StartDate(holdings) == Min({holdings[i].purchase_date : i \in 1..Len(holdings)})
EndDate == Today + 1

\* The loop of lines 347-392 from holding i on: it stops at the first raise.
\* Each appended series carries the position i of its holding.
\* One pass r of the loop body for holding i, followed by the passes `rest`.
LoopStep(holdings, i, r, rest) ==
    IF r.st = "raise"
    THEN [raised |-> TRUE, series_list |-> <<>>, calls |-> r.calls]
    ELSE IF rest.raised
    THEN [raised |-> TRUE, series_list |-> <<>>, calls |-> r.calls \o rest.calls]
    ELSE [raised |-> FALSE,
          series_list |->
              (IF r.st = "ok"
               THEN <<[i |-> i, ticker |-> holdings[i].ticker, value |-> r.value]>>
               ELSE <<>>) \o rest.series_list,
          calls |-> r.calls \o rest.calls]

RECURSIVE ValueLoop(_, _, _)
ValueLoop(holdings, answers, i) ==
    IF i > Len(holdings)
    THEN [raised |-> FALSE, series_list |-> <<>>, calls |-> <<>>]
    ELSE LoopStep(holdings, i,
                  HoldingValue(holdings[i], answers[i], StartDate(holdings), EndDate),
                  ValueLoop(holdings, answers, i + 1))

-----
(* PortfolioAggregator, lines 399-419.                                     *)

\* SumColumns without the forward fill: a series counts on its own dates only.
RECURSIVE SumColumns_no_ffill(_, _)
SumColumns_no_ffill(series_list, d) ==
    IF series_list = <<>> THEN 0
    ELSE LET s == Head(series_list).value
             at == {j \in 1..Len(s) : s[j].d = d /\ s[j].v # NaN}
         IN  (IF at = {} THEN 0 ELSE s[CHOOSE j \in at : TRUE].v)
             + SumColumns_no_ffill(Tail(series_list), d)

RECURSIVE SumColumns(_, _)
SumColumns(series_list, d) ==
    IF series_list = <<>> THEN 0
    ELSE fillna0(Ffill(Head(series_list).value, d)) + SumColumns(Tail(series_list), d)

\* CombinedTotal with the series concatenated end to end (axis=0).
RECURSIVE EndToEnd(_)
EndToEnd(series_list) ==
    IF series_list = <<>> THEN <<>>
    ELSE Head(series_list).value \o EndToEnd(Tail(series_list))

CombinedTotal_axis0(series_list) == sort_index(EndToEnd(series_list))

\* pd.concat(series_list, axis=1).sort_index().ffill(), then
\* combined.fillna(0).sum(axis=1): lines 400-401.
CombinedTotal(series_list) ==
    LET dates == UNION {Index(series_list[k].value) : k \in 1..Len(series_list)}
    IN  sort_index(SeriesOver(dates, [d \in dates |-> SumColumns(series_list, d)]))

\* LatestTotal with the purchase price in place of current_price.
RECURSIVE LatestTotal_at_cost(_)
LatestTotal_at_cost(holdings) ==
    IF holdings = <<>> THEN 0
    ELSE LET a == Head(holdings)
         IN  (IF a.shares <= 0 \/ Today < a.purchase_date
              THEN 0
              ELSE a.shares * a.price) + LatestTotal_at_cost(Tail(holdings))

\* The loop of lines 405-416.
RECURSIVE LatestTotal(_)
LatestTotal(holdings) ==
    IF holdings = <<>> THEN 0
    ELSE LET a == Head(holdings)
         IN  (IF a.shares <= 0 \/ Today < a.purchase_date
              THEN 0
              ELSE a.shares * a.current_price) + LatestTotal(Tail(holdings))

\* Lines 403-419: the synthetic point of today.
WithTodayPoint(total, holdings) ==
    IF Len(total) > 0 /\ Max(Index(total)) < Today
    THEN sort_index(SetLoc(total, Today, LatestTotal(holdings)))
    ELSE total

-----------------------------------------------------------------------------
(* SummaryCalculator, lines 429-444.                                       *)

RECURSIVE TotalCost(_)
TotalCost(holdings) ==
    IF holdings = <<>> THEN 0
    ELSE LET a == Head(holdings)
         IN  (IF a.shares <= 0 THEN 0 ELSE a.shares * a.price)
             + TotalCost(Tail(holdings))

RECURSIVE TotalCurrent(_)
TotalCurrent(holdings) ==
    IF holdings = <<>> THEN 0
    ELSE LET a == Head(holdings)
         IN  (IF a.shares <= 0 THEN 0 ELSE a.shares * a.current_price)
             + TotalCurrent(Tail(holdings))

\* total_pct taken over the current value instead of the cost.
TotalPct_of_current(total_profit, total_cost) ==
    IF total_cost > 0
    THEN [num |-> total_profit, den |-> total_profit + total_cost]
    ELSE [num |-> 0, den |-> 1]

\* total_pct, line 444, as the exact fraction num / den.
TotalPct(total_profit, total_cost) ==
    IF total_cost > 0
    THEN [num |-> total_profit, den |-> total_cost]
    ELSE [num |-> 0, den |-> 1]

-----------------------------------------------------------------------------
(* ChartDataBuilder, lines 452-543, and reset_total_worth, lines 306-322.  *)
(* Chart y-coordinates are kept in units of 1/YUnit CHF, in which the 5%   *)
(* pad and the tick step of an integer-valued series are integers.         *)

y_ticks == 8
x_labels_count == 8
YUnit == 20 * y_ticks

NoText == [shown |-> FALSE, num |-> 0, den |-> 1]
Text(num, den) == [shown |-> TRUE, num |-> num, den |-> den]

\* reset_total_worth that never clears the two summary texts.
reset_total_worth_keeping(clear_summary, old) ==
    [total_worth_value_text |-> 0,
     total_gain_pct_text    |-> old.total_gain_pct_text,
     total_profit_text      |-> old.total_profit_text,
     points   |-> <<>>,
     min_x    |-> 0,
     max_x    |-> 1,
     min_y    |-> 0,
     max_y    |-> 1 * YUnit,
     y_labels |-> <<>>,
     x_labels |-> <<>>]

\* The texts and the chart as the page shows them.
reset_total_worth(clear_summary, old) ==
    [total_worth_value_text |-> 0,
     total_gain_pct_text    |-> IF clear_summary THEN NoText ELSE old.total_gain_pct_text,
     total_profit_text      |-> IF clear_summary THEN NoText ELSE old.total_profit_text,
     points   |-> <<>>,
     min_x    |-> 0,
     max_x    |-> 1,
     min_y    |-> 0,
     max_y    |-> 1 * YUnit,
     y_labels |-> <<>>,
     x_labels |-> <<>>]

\* int(round(x / y)) for x >= 0, y > 0 (line 533).
RoundDiv(x, y) == (2 * x + y) \div (2 * y)

\* XLabels with the day offset truncated instead of rounded.
XLabels_truncated(dates) ==
    IF Len(dates) <= 1
    THEN <<dates[1]>>
    ELSE LET total_days == dates[Len(dates)] - dates[1]
         IN  [k \in 1..x_labels_count |->
                 dates[1] + (total_days * (k - 1)) \div (x_labels_count - 1)]

\* Lines 512-543.
XLabels(dates) ==
    IF Len(dates) <= 1
    THEN <<dates[1]>>
    ELSE LET total_days == dates[Len(dates)] - dates[1]
         IN  [k \in 1..x_labels_count |->
                 dates[1] + RoundDiv(total_days * (k - 1), x_labels_count - 1)]

\* YRange with the pad taken below the minimum only.
YRange_pad_below(min_val, max_val) ==
    IF max_val - min_val = 0
    THEN [min_y |-> (min_val - 1) * YUnit, max_y |-> (max_val + 1) * YUnit]
    ELSE [min_y |-> min_val * YUnit - (YUnit \div 20) * (max_val - min_val),
          max_y |-> max_val * YUnit]

\* Lines 458-468 and 498-510: the y-range and the y labels.
YRange(min_val, max_val) ==
    IF max_val - min_val = 0
    THEN [min_y |-> (min_val - 1) * YUnit, max_y |-> (max_val + 1) * YUnit]
    ELSE [min_y |-> min_val * YUnit - (YUnit \div 20) * (max_val - min_val),
          max_y |-> max_val * YUnit + (YUnit \div 20) * (max_val - min_val)]

YStep(rng) == IF rng > 0 THEN rng \div y_ticks ELSE 1 * YUnit

\* YLabels over range(y_ticks) instead of range(y_ticks + 1).
YLabels_short(min_y, step) == [k \in 1..y_ticks |-> min_y + (y_ticks - k) * step]

YLabels(min_y, step) == [k \in 1..(y_ticks + 1) |-> min_y + (y_ticks + 1 - k) * step]

\* Lines 425-543 for a non-empty total.
ShowValues(total, values, y, total_cost, total_profit) ==
    [total_worth_value_text |-> values[Len(values)],
     total_gain_pct_text    |-> Text(TotalPct(total_profit, total_cost).num,
                                     TotalPct(total_profit, total_cost).den),
     total_profit_text      |-> Text(total_profit, 1),
     points   |-> values,
     min_x    |-> 0,
     max_x    |-> IF Len(values) - 1 > 1 THEN Len(values) - 1 ELSE 1,
     min_y    |-> y.min_y,
     max_y    |-> y.max_y,
     y_labels |-> YLabels(y.min_y, YStep(y.max_y - y.min_y)),
     x_labels |-> XLabels([i \in 1..Len(total) |-> total[i].d])]

ShowTotal(total, holdings) ==
    ShowValues(total, [i \in 1..Len(total) |-> total[i].v],
               YRange(Min({total[i].v : i \in 1..Len(total)}),
                      Max({total[i].v : i \in 1..Len(total)})),
               TotalCost(holdings), TotalCurrent(holdings) - TotalCost(holdings))

-----------------------------------------------------------------------------
(* update_total_worth_graph, lines 325-543, as a function of the holdings  *)
(* list, the collaborator's answers and the page as it was.  The result    *)
(* holds the page after the run (an exception leaves the page as it was),  *)
(* whether the run raised, its retrieval calls, and its locals series_list *)
(* and total.                                                              *)

\* Lines 421-543, for the total of lines 399-419.
ShowOrReset(built, total, holdings, old) ==
    IF Len(total) = 0
    THEN [raised |-> FALSE, calls |-> built.calls, series_list |-> built.series_list,
          total |-> <<>>, page |-> reset_total_worth(TRUE, old)]
    ELSE [raised |-> FALSE, calls |-> built.calls, series_list |-> built.series_list,
          total |-> total, page |-> ShowTotal(total, holdings)]

\* Lines 394-543, for the outcome `built` of the loop.
Aggregate(built, holdings, old) ==
    IF built.raised
    THEN [raised |-> TRUE, calls |-> built.calls, series_list |-> <<>>,
          total |-> <<>>, page |-> old]
    ELSE IF Len(built.series_list) = 0
    THEN [raised |-> FALSE, calls |-> built.calls, series_list |-> <<>>,
          total |-> <<>>, page |-> reset_total_worth(TRUE, old)]
    ELSE ShowOrReset(built,
                     WithTodayPoint(CombinedTotal(built.series_list), holdings),
                     holdings, old)

update_total_worth_graph(holdings, answers, old) ==
    IF Len(holdings) = 0
    THEN [raised |-> FALSE, calls |-> <<>>, series_list |-> <<>>,
          total |-> <<>>, page |-> reset_total_worth(TRUE, old)]
    ELSE Aggregate(ValueLoop(holdings, answers, 1), holdings, old)

-----
(* The state: the holdings list `assets` (line 30), the page (the texts of *)
(* lines 33-53 and the chart and label controls of lines 56-77), the cards *)
(* of assets_column (line 546) by the ticker their delete button holds,    *)
(* and the title of the error dialog the last handler opened.  The other   *)
(* variables record the last run of update_total_worth_graph: the answers  *)
(* the collaborator gave it, the retrieval calls of the last handler, the  *)
(* locals series_list and total, and whether the run raised; `handler`    *)
(* names the caller of the last refresh_assets, and `clicked` the card     *)
(* whose delete button started it (0: none did).                           *)
(*                                                                         *)
(* An exception that leaves update_total_worth_graph is caught by nobody:  *)
(* the session is followed up to that point and no further.                *)

VARIABLES assets, page, cards, dialog, feed, calls, series_list, total, raised,
          handler, clicked

vars == <<assets, page, cards, dialog, feed, calls, series_list, total, raised,
          handler, clicked>>

\* A holding, lines 883-896 (name, type and the two gain fields are shown on
\* the card only and are left out).
Holding(ticker, shares, price, current_price, purchase_date) ==
    [ticker |-> ticker, shares |-> shares, price |-> price,
     current_price |-> current_price, purchase_date |-> purchase_date]

\* The collaborator's answers to one pass of the loop body.  A call that is
\* not made has the answer of Unasked.
Unasked == [bars |-> {}, info |-> "ok", fx |-> {}]

InWindow(shape, start_date) == {d \in shape : start_date <= d /\ d <= EndDate}

AnswersTo(a, start_date) ==
    IF a.ticker = "" \/ a.shares <= 0 THEN {Unasked}
    ELSE {ans \in [bars : {InWindow(b, start_date) : b \in BarShapes},
                   info : {"ok", "error"},
                   fx   : {InWindow(f, start_date) : f \in FxShapes}] :
             /\ ans.bars = {} => ans.info = "ok"
             /\ (ans.bars = {} \/ get_ticker_currency(a.ticker, ans.info) = "CHF")
                   => ans.fx = {}}

\* The answers to the loop from holding i on: none is asked after a raise.
RECURSIVE AnswerSeqsFrom(_, _)
AnswerSeqsFrom(holdings, i) ==
    IF i > Len(holdings) THEN {<<>>}
    ELSE LET start_date == StartDate(holdings)
             unasked    == [k \in 1..(Len(holdings) - i) |-> Unasked]
         IN  UNION {{<<ans>> \o rest :
                        rest \in IF HoldingValue(holdings[i], ans, start_date,
                                                 EndDate).st = "raise"
                                 THEN {unasked}
                                 ELSE AnswerSeqsFrom(holdings, i + 1)} :
                    ans \in AnswersTo(holdings[i], start_date)}

AnswerSeqs(holdings) == AnswerSeqsFrom(holdings, 1)

\* refresh_assets, lines 548-557 and 697, on the list `holdings`, after a
\* handler that made the calls `before`: the chart is recomputed, then the
\* cards are rebuilt.  An exception of the recompute leaves the cards.
refresh_assets(holdings, before) ==
    \E answers \in AnswerSeqs(holdings) :
      \E r \in {update_total_worth_graph(holdings, answers, page)} :
            /\ page' = r.page
            /\ cards' = IF r.raised THEN cards
                        ELSE [i \in 1..Len(holdings) |-> holdings[i].ticker]
            /\ feed' = answers
            /\ calls' = before \o r.calls
            /\ series_list' = r.series_list
            /\ total' = r.total
            /\ raised' = r.raised

\* After main(page) has run: the empty list, and the refresh of line 1053.
Init ==
    /\ assets = <<>>
    /\ page = reset_total_worth(TRUE, [total_gain_pct_text |-> NoText,
                                       total_profit_text |-> NoText])
    /\ cards = <<>>
    /\ dialog = ""
    /\ feed = <<>>
    /\ calls = <<>>
    /\ series_list = <<>>
    /\ total = <<>>
    /\ raised = FALSE
    /\ handler = "main"
    /\ clicked = 0

\* delete_asset(ticker), lines 699-705, from the button of card k.
RemoveFirst(holdings, ticker) ==
    LET hits == {i \in 1..Len(holdings) : holdings[i].ticker = ticker}
    IN  IF hits = {} THEN holdings
        ELSE LET i == Min(hits)
             IN  SubSeq(holdings, 1, i - 1) \o SubSeq(holdings, i + 1, Len(holdings))

delete_asset ==
    /\ dialog = ""
    /\ ~raised
    /\ \E k \in 1..Len(cards) :
        LET left == RemoveFirst(assets, cards[k])
        IN  /\ assets' = left
            /\ dialog' = ""
            /\ handler' = "delete_asset"
            /\ clicked' = k
            /\ refresh_assets(left, <<>>)

-----------------------------------------------------------------------------
(* The add-asset dialog, lines 707-950.                                    *)

NoDate == 0 - 1

\* What the user may have typed and picked when Add is clicked.
TickerInputs == {"", "NESN", "AAPL", "vod"}
SharesInputs == {0, 2}
PriceInputs == {0, 50}
DateInputs == {NoDate} \cup Days

\* str.upper(), line 835.
Upper(t) == IF t = "vod" THEN "VOD" ELSE t

\* validate_fields, lines 796-829.
validate_fields(ticker, shares, price, date) ==
    ticker # "" /\ shares > 0 /\ price > 0 /\ date # NoDate

\* get_fx_rate_to_chf, lines 190-201: the last close of the past five days.
get_fx_rate_to_chf(from_ccy, bars) ==
    LET ccy   == _normalize_ccy(from_ccy)
        close == {d \in bars : Today - 4 <= d /\ d <= Today}
    IN  IF ccy = "CHF" THEN [raised |-> FALSE, rate |-> 1]
        ELSE IF close = {} THEN [raised |-> TRUE, rate |-> 0]
        ELSE [raised |-> FALSE, rate |-> FxClose(ccy, Max(close))]

\* get_current_price, lines 223-251.  q = [info, price, fx]: whether .info
\* could be read, the price it or the five-day history holds (0: none), and
\* the days of the FX download.
get_current_price(ticker, q) ==
    LET raw   == InfoCurrency(ticker)
        ccy   == _normalize_ccy(raw)
        price == IF ccy = "GBP" /\ raw = "GBp" THEN q.price \div 100 ELSE q.price
        fx    == get_fx_rate_to_chf(ccy, q.fx)
        c1    == <<Call("get_current_price", ticker)>>
        c2    == c1 \o <<Call("get_fx_rate_to_chf", ccy)>>
    IN  IF q.info = "error" \/ q.price = 0
        THEN [raised |-> TRUE, price |-> 0, calls |-> c1]
        ELSE IF fx.raised
        THEN [raised |-> TRUE, price |-> 0, calls |-> c2]
        ELSE [raised |-> FALSE, price |-> price * fx.rate,
              calls |-> IF ccy = "CHF" THEN c1 ELSE c2]

QuoteAnswers(ticker) ==
    {q \in [info : {"ok", "error"}, price : {0, NativeClose(Today)}, fx : {{}, Days}] :
        /\ q.info = "error" => q.price = 0
        /\ (q.price = 0 \/ _normalize_ccy(InfoCurrency(ticker)) = "CHF") => q.fx = {}}

\* get_first_price_date, lines 254-273: a day, or NoDate for None.
FirstDates == {NoDate, 0, 1}

\* add_asset, lines 707-950: the dialog opens with empty fields.
add_asset ==
    /\ dialog = ""
    /\ ~raised
    /\ Len(assets) < MaxAssets
    /\ dialog' = "add"
    /\ calls' = <<>>
    /\ clicked' = 0
    /\ UNCHANGED <<assets, page, cards, feed, series_list, total, raised, handler>>

\* The Cancel button, lines 925-927.
cancel_add ==
    /\ dialog = "add"
    /\ dialog' = ""
    /\ calls' = <<>>
    /\ UNCHANGED <<assets, page, cards, feed, series_list, total, raised, handler, clicked>>

\* The OK button of open_error_dialog, lines 84-110.
close_error ==
    /\ dialog \notin {"", "add"}
    /\ dialog' = "add"
    /\ calls' = <<>>
    /\ UNCHANGED <<assets, page, cards, feed, series_list, total, raised, handler, clicked>>

\* A rejected click on Add: the dialog named is opened, nothing is added.
Reject(title, made) ==
    /\ dialog' = title
    /\ calls' = made
    /\ UNCHANGED <<assets, page, cards, feed, series_list, total, raised, handler, clicked>>

\* The error dialogs of on_add_click, by title and message; Silent is the
\* return of line 834, which leaves the add dialog as it is.
Silent == "add"
NoDateMsg == "Invalid date: Please select a purchase date."
FutureMsg == "Invalid date: Purchase date cannot be in the future."
NumbersMsg == "Invalid input: Shares and price must be valid numbers."
TickerMsg == "Invalid ticker: Could not fetch price data."
HistoryMsg == "Invalid date: price history only from a later date."

\* A retrieval call with the answer it returned.
Answer(fn, arg, got) == [fn |-> fn, arg |-> arg, got |-> got]

\* Lines 858-875 with the pre-listing check of line 870 left out.
Priced_ignoring_listing(ticker, purchase_date, cp, first_dt) ==
    IF cp.raised
    THEN [outcome |-> TickerMsg, calls |-> cp.calls, current_price |-> 0]
    ELSE [outcome |-> "ok",
          calls |-> cp.calls \o <<Answer("get_first_price_date", ticker, first_dt)>>,
          current_price |-> cp.price]

\* Lines 858-875: the current price cp and the first trade date first_dt
\* are fetched, and a purchase before the first trade date is rejected.
Priced(ticker, purchase_date, cp, first_dt) ==
    IF cp.raised
    THEN [outcome |-> TickerMsg, calls |-> cp.calls, current_price |-> 0]
    ELSE IF first_dt # NoDate /\ purchase_date < first_dt
    THEN [outcome |-> HistoryMsg,
          calls |-> cp.calls \o <<Answer("get_first_price_date", ticker, first_dt)>>,
          current_price |-> 0]
    ELSE [outcome |-> "ok",
          calls |-> cp.calls \o <<Answer("get_first_price_date", ticker, first_dt)>>,
          current_price |-> cp.price]

\* The checks of lines 841-856 made on the outcome r of the retrievals.
CheckedLate(shares, price, purchase_date, r) ==
    IF r.outcome # "ok" THEN r
    ELSE IF purchase_date = NoDate
    THEN [outcome |-> NoDateMsg, calls |-> r.calls, current_price |-> 0]
    ELSE IF purchase_date > Today
    THEN [outcome |-> FutureMsg, calls |-> r.calls, current_price |-> 0]
    ELSE IF shares <= 0 \/ price <= 0
    THEN [outcome |-> NumbersMsg, calls |-> r.calls, current_price |-> 0]
    ELSE r

\* AddAttempt with the retrievals made before the checks of lines 841-856.
AddAttempt_checks_late(ticker_field, shares, price, purchase_date, q, first_dt) ==
    IF ~validate_fields(ticker_field, shares, price, purchase_date)
    THEN [outcome |-> Silent, calls |-> <<>>, current_price |-> 0]
    ELSE CheckedLate(shares, price, purchase_date,
                     Priced(Upper(ticker_field), purchase_date,
                            get_current_price(Upper(ticker_field), q), first_dt))

\* Lines 833-875 of on_add_click: the outcome of a click with the given
\* fields when the collaborator answers q and first_dt: "ok", or the
\* rejection; the retrieval calls made; the current price fetched.
AddAttempt(ticker_field, shares, price, purchase_date, q, first_dt) ==
    IF ~validate_fields(ticker_field, shares, price, purchase_date)
    THEN [outcome |-> Silent, calls |-> <<>>, current_price |-> 0]
    ELSE IF purchase_date = NoDate
    THEN [outcome |-> NoDateMsg, calls |-> <<>>, current_price |-> 0]
    ELSE IF purchase_date > Today
    THEN [outcome |-> FutureMsg, calls |-> <<>>, current_price |-> 0]
    ELSE IF shares <= 0 \/ price <= 0
    THEN [outcome |-> NumbersMsg, calls |-> <<>>, current_price |-> 0]
    ELSE Priced(Upper(ticker_field), purchase_date,
                get_current_price(Upper(ticker_field), q), first_dt)

\* Lines 877-899: the holding is appended, the dialog closed, the page
\* refreshed.
Accept(new, made) ==
    /\ assets' = new
    /\ dialog' = ""
    /\ handler' = "on_add_click"
    /\ clicked' = 0
    /\ refresh_assets(new, made)

\* on_add_click, lines 831-899.
on_add_click ==
    /\ dialog = "add"
    /\ \E ticker_field \in TickerInputs, shares \in SharesInputs,
          price \in PriceInputs, purchase_date \in DateInputs :
         \E q \in QuoteAnswers(Upper(ticker_field)), first_dt \in FirstDates :
         \E r \in {AddAttempt(ticker_field, shares, price, purchase_date,
                              q, first_dt)} :
            IF r.outcome # "ok"
            THEN Reject(r.outcome, r.calls)
            ELSE Accept(Append(assets,
                               Holding(Upper(ticker_field), shares, price,
                                       r.current_price, purchase_date)),
                        r.calls \o <<Call("get_ticker_name", Upper(ticker_field)),
                                     Call("get_asset_type", Upper(ticker_field))>>)

\* delete_asset runs from a card, with no dialog open.
Next == add_asset \/ cancel_add \/ close_error \/ on_add_click \/ delete_asset

Spec == Init /\ [][Next]_vars

-----------------------------------------------------------------------------
(* The engine alone: update_total_worth_graph applied once to a holdings   *)
(* list it is handed, which need not have come from on_add_click (shares   *)
(* and purchase prices may be zero or negative).  The current price of a   *)
(* holding is the snapshot get_current_price gives its ticker.             *)

EngineShares == {0 - 1, 0, 1, 2}
EnginePrices == {0, 50}

SnapshotPrice(ticker) ==
    get_current_price(ticker, [info |-> "ok", price |-> NativeClose(Today),
                               fx |-> Days]).price

EngineHoldings ==
    {Holding(t, sh, pr, SnapshotPrice(t), pd) :
        t \in Tickers, sh \in EngineShares, pr \in EnginePrices, pd \in 0..Today}

EngineInit ==
    /\ assets \in UNION {[1..n -> EngineHoldings] : n \in 0..MaxAssets}
    /\ page = reset_total_worth(TRUE, [total_gain_pct_text |-> NoText,
                                       total_profit_text |-> NoText])
    /\ cards = <<>>
    /\ dialog = ""
    /\ feed = <<>>
    /\ calls = <<>>
    /\ series_list = <<>>
    /\ total = <<>>
    /\ raised = FALSE
    /\ handler = "none"
    /\ clicked = 0

recompute ==
    /\ handler = "none"
    /\ handler' = "recompute"
    /\ refresh_assets(assets, <<>>)
    /\ UNCHANGED <<assets, dialog, clicked>>

EngineSpec == EngineInit /\ [][recompute]_vars

-----------------------------------------------------------------------------
(* Properties.                                                             *)

RECURSIVE SumOver(_, _)
SumOver(S, f) ==
    IF S = {} THEN 0
    ELSE LET x == CHOOSE y \in S : TRUE
         IN  f[x] + SumOver(S \ {x}, f)

Positions == 1..Len(assets)
\* The positions of the holdings a series was built for.
Charted == {series_list[k].i : k \in 1..Len(series_list)}
SeriesOf(i) == series_list[CHOOSE k \in 1..Len(series_list) : series_list[k].i = i].value
\* The dates of the unioned series.
UnionDates == UNION {Index(series_list[k].value) : k \in 1..Len(series_list)}
\* update_total_worth_graph has run, and to its end.
Recomputed == handler # "none" /\ ~raised
\* The holdings the Summary counts.
Counted == {i \in Positions : assets[i].shares > 0}
CostOf == [i \in Positions |-> assets[i].shares * assets[i].price]
WorthOf == [i \in Positions |-> assets[i].shares * assets[i].current_price]
\* The profit and percentage texts of a Summary over the counted holdings.
ProfitText == Text(SumOver(Counted, WorthOf) - SumOver(Counted, CostOf), 1)
PctText ==
    IF SumOver(Counted, CostOf) > 0
    THEN Text(SumOver(Counted, WorthOf) - SumOver(Counted, CostOf),
              SumOver(Counted, CostOf))
    ELSE Text(0, 1)

\* C1: for every holding with shares > 0 and purchase_price > 0 whose price
\* download succeeded, the value series built starts at purchase_date, holds no
\* earlier date, and its value at purchase_date is shares * purchase_price,
\* whatever bars and FX rates the collaborator gave.
C1_AnchoredAtPurchase ==
    Recomputed =>
        \A i \in Positions :
            (assets[i].shares > 0 /\ assets[i].price > 0 /\ feed[i].bars # {}) =>
                /\ i \in Charted
                /\ \A j \in 1..Len(SeriesOf(i)) :
                      /\ SeriesOf(i)[j].d >= assets[i].purchase_date
                      /\ (SeriesOf(i)[j].d = assets[i].purchase_date) = (j = 1)
                /\ SeriesOf(i)[1].v = assets[i].shares * assets[i].price

\* C1 witness: a series was built for a foreign holding whose purchase date
\* has a bar but no FX rate on or before it, and for one that has bars before
\* its purchase date and none on it.
C1_Witness ==
    /\ Recomputed
    /\ \E i \in Charted :
          /\ assets[i].price > 0
          /\ InfoCurrency(assets[i].ticker) # "CHF" /\ feed[i].info = "ok"
          /\ assets[i].purchase_date \in feed[i].bars
          /\ \A d \in feed[i].fx : d > assets[i].purchase_date
    /\ \E i \in Charted :
          /\ assets[i].price > 0
          /\ assets[i].purchase_date \notin feed[i].bars
          /\ \E d \in feed[i].bars : d < assets[i].purchase_date

\* C2: when the latest date of the unioned series is before today, exactly one
\* point dated today is appended, worth the sum of shares * current_price over
\* the holdings with shares > 0 and purchase_date <= today, charted or not;
\* otherwise no point is appended.
C2_TodayPoint ==
    (Recomputed /\ Len(series_list) > 0) =>
        IF Max(UnionDates) < Today
        THEN /\ Len(total) = Cardinality(UnionDates) + 1
             /\ Index(total) = UnionDates \cup {Today}
             /\ total[Len(total)] =
                  [d |-> Today,
                   v |-> SumOver({i \in Counted : assets[i].purchase_date <= Today},
                                 WorthOf)]
        ELSE /\ Len(total) = Cardinality(UnionDates)
             /\ Index(total) = UnionDates

\* C2 witness: the point of today was appended while a holding with shares is
\* missing from the series, and, in another state, none was appended.
C2_Witness ==
    /\ Recomputed /\ Len(series_list) > 0
    /\ Max(UnionDates) < Today
    /\ \E i \in Positions : assets[i].shares > 0 /\ i \notin Charted

\* C3: a recompute that yields a non-empty total series ends it at today, with
\* exactly one entry for today, whatever bars inside the query window
\* [earliest purchase date, today + 1 day] the collaborator returned.
C3_EndsToday ==
    (Recomputed /\ Len(total) > 0) =>
        /\ total[Len(total)].d = Today
        /\ Cardinality({j \in 1..Len(total) : total[j].d = Today}) = 1

\* C4: a holding whose price download failed or was empty is left out of the
\* series and still counts, with its shares * purchase_price and its shares *
\* current_price, in the profit and percentage shown after the recompute, also
\* when no holding produced a series.
C4_FailedStillCounted ==
    Recomputed =>
        \A i \in Counted :
            feed[i].bars = {} =>
                /\ i \notin Charted
                /\ page.total_profit_text = ProfitText
                /\ page.total_gain_pct_text = PctText

\* C5: update_total_worth_graph never raises, whatever retrievals fail or are
\* empty, and every holding whose own retrievals succeeded is charted.
C5_NeverRaises ==
    /\ ~raised
    /\ \A i \in Counted :
          ( /\ feed[i].bars # {}
            /\ assets[i].price > 0
            /\ get_ticker_currency(assets[i].ticker, feed[i].info) # "CHF"
                   => feed[i].fx # {} ) => i \in Charted

\* The day whose FX close converts the close of day d of holding i: the latest
\* price date on or before d that has an FX close.
RateDays(i, d) == {e \in feed[i].fx \cap feed[i].bars : e <= d}

\* C6: the prices of an instrument quoted in GBp are divided by 100 before the
\* GBP rate is applied, in the current-price snapshot and in the closes the
\* value series is built from alike.
C6_PenceScaled ==
    Recomputed =>
        \A i \in Charted :
            (InfoCurrency(assets[i].ticker) = "GBp" /\ feed[i].info = "ok") =>
                /\ assets[i].current_price =
                      (NativeClose(Today) \div 100) * FxClose("GBP", Today)
                /\ \A j \in 1..Len(SeriesOf(i)) :
                      LET r == SeriesOf(i)[j]
                      IN  (r.d # assets[i].purchase_date /\ r.v # NaN) =>
                             r.v = assets[i].shares * (NativeClose(r.d) \div 100)
                                     * FxClose("GBP", Max(RateDays(i, r.d)))

\* C7: the total value shown after a recompute whose series ends today is the
\* sum of shares * current_price over the holdings with shares > 0, so that
\* the profit shown is the total value shown less the total cost.
C7_ValueIsTotalCurrent ==
    (Recomputed /\ Len(total) > 0 /\ total[Len(total)].d = Today) =>
        /\ page.total_worth_value_text = SumOver(Counted, WorthOf)
        /\ page.total_profit_text =
              Text(page.total_worth_value_text - SumOver(Counted, CostOf), 1)

\* C8: a holding with shares <= 0 gets no series and no price download, and
\* adds nothing to the point of today, to total_cost or to total_current.
C8_NoSharesExcluded ==
    handler # "none" =>
        /\ \A i \in Positions : assets[i].shares <= 0 => i \notin Charted
        /\ Cardinality({k \in 1..Len(calls) : calls[k].fn = "download_close"})
              <= Cardinality(Counted)
        /\ ~raised =>
              Cardinality({k \in 1..Len(calls) : calls[k].fn = "download_close"})
                = Cardinality(Counted)
        /\ (~raised /\ Len(series_list) > 0 /\ Max(UnionDates) < Today) =>
              total[Len(total)].v = SumOver(Counted, WorthOf)
        /\ (~raised /\ Len(total) > 0) =>
              /\ page.total_profit_text = ProfitText
              /\ page.total_gain_pct_text = PctText

\* C8 witness: a list with a holding of no shares and one of negative shares
\* beside a charted one, the last point being the appended one of today.
C8_Witness ==
    /\ Recomputed /\ Len(series_list) > 0
    /\ Max(UnionDates) < Today
    /\ \E i \in Positions : assets[i].shares <= 0 /\ assets[i].price > 0
    /\ \E i \in Positions : i \in Charted

\* C9: with an empty holdings list the recompute does not fail and leaves the
\* reset output: no points, x in [0, 1], y in [0, 1], no axis labels, total
\* value 0 and neither profit nor percentage text.
C9_EmptyListResets ==
    assets = <<>> =>
        /\ ~raised
        /\ page = [total_worth_value_text |-> 0,
                   total_gain_pct_text |-> NoText,
                   total_profit_text |-> NoText,
                   points |-> <<>>,
                   min_x |-> 0, max_x |-> 1,
                   min_y |-> 0, max_y |-> 1 * YUnit,
                   y_labels |-> <<>>, x_labels |-> <<>>]

\* C9 witness: the list is empty after the last holding was deleted.
C9_Witness == assets = <<>> /\ handler = "delete_asset"

\* C10: the dates of the total series are strictly ascending, with no date
\* twice, with or without the point of today.
C10_StrictlyAscending ==
    \A j \in 1..(Len(total) - 1) : total[j].d < total[j + 1].d

\* C10 witness: two holdings of the same ticker with series that share a date
\* and differ in another, and the point of today appended.
C10_Witness ==
    /\ Recomputed /\ Len(series_list) = 2
    /\ series_list[1].ticker = series_list[2].ticker
    /\ Index(series_list[1].value) \cap Index(series_list[2].value) # {}
    /\ Index(series_list[1].value) # Index(series_list[2].value)
    /\ Max(UnionDates) < Today
    /\ Len(total) = Cardinality(UnionDates) + 1

\* The values of the total series, lowest and highest.
Values == {total[j].v : j \in 1..Len(total)}
Charting == Recomputed /\ Len(total) > 0

\* C11: the y-range of the chart is [min - pad, max + pad] with pad 5% of
\* max - min, and pad 1 when max = min; [100, 100, 100] gives [99, 101] and
\* [100, 200] gives [95, 205].
C11_YRange ==
    /\ Charting =>
          IF Max(Values) = Min(Values)
          THEN /\ page.min_y = (Min(Values) - 1) * YUnit
               /\ page.max_y = (Max(Values) + 1) * YUnit
          ELSE /\ 20 * page.min_y = YUnit * (20 * Min(Values) - (Max(Values) - Min(Values)))
               /\ 20 * page.max_y = YUnit * (20 * Max(Values) + (Max(Values) - Min(Values)))
    /\ YRange(100, 100) = [min_y |-> 99 * YUnit, max_y |-> 101 * YUnit]
    /\ YRange(100, 200) = [min_y |-> 95 * YUnit, max_y |-> 205 * YUnit]

\* C11 witness: a chart of several points that are not all equal.
C11_Witness == Charting /\ Len(total) >= 2 /\ Max(Values) > Min(Values)

\* C12 as stated: a non-empty total series gets exactly 8 y labels, evenly
\* spaced, from max_y down to min_y, strictly descending.
C12_EightYLabels ==
    Charting =>
        /\ Len(page.y_labels) = 8
        /\ page.y_labels[1] = page.max_y
        /\ page.y_labels[Len(page.y_labels)] = page.min_y
        /\ \A k \in 1..(Len(page.y_labels) - 1) :
              /\ page.y_labels[k] > page.y_labels[k + 1]
              /\ page.y_labels[k] - page.y_labels[k + 1]
                    = page.y_labels[1] - page.y_labels[2]

\* C12 amended: a non-empty total series gets exactly 9 y labels (the ends
\* of 8 equal intervals), from max_y down to min_y, strictly descending.
C12_NineYLabels ==
    Charting =>
        /\ Len(page.y_labels) = y_ticks + 1
        /\ page.y_labels[1] = page.max_y
        /\ page.y_labels[y_ticks + 1] = page.min_y
        /\ \A k \in 1..y_ticks :
              /\ page.y_labels[k] > page.y_labels[k + 1]
              /\ y_ticks * (page.y_labels[k] - page.y_labels[k + 1])
                    = page.max_y - page.min_y

\* C12 witness: the labels of a chart whose values are not all equal.
C12_Witness ==
    Charting /\ Max(Values) > Min(Values) /\ Len(page.y_labels) > 0

\* C13: a total series of n > 1 points gets exactly 8 x labels, the dates
\* first + round(total_days * i / 7) for i = 0..7, from the first date to
\* the last, never decreasing; a span of 70 days gives 0, 10, ..., 70; a
\* series of one point gets the one label of its date.
C13_XLabels ==
    /\ Charting =>
          IF Len(total) = 1
          THEN page.x_labels = <<total[1].d>>
          ELSE LET first == total[1].d
                   total_days == total[Len(total)].d - total[1].d
               IN  /\ Len(page.x_labels) = 8
                   /\ page.x_labels[1] = first
                   /\ page.x_labels[8] = total[Len(total)].d
                   /\ \A k \in 1..7 : page.x_labels[k] <= page.x_labels[k + 1]
                   /\ \A k \in 1..8 :
                         LET off == page.x_labels[k] - first
                         IN  /\ 2 * (7 * off - total_days * (k - 1)) < 7
                             /\ 2 * (total_days * (k - 1) - 7 * off) < 7
    /\ XLabels(<<0, 70>>) = <<0, 10, 20, 30, 40, 50, 60, 70>>

\* C13 witness: labels over a span of days that 7 does not divide.
C13_Witness ==
    /\ Charting /\ Len(total) > 1
    /\ total[Len(total)].d - total[1].d >= 2
    /\ Len(page.x_labels) = 8

\* C14: the Summary shown over the holdings with shares > 0 has profit =
\* sum of shares * current_price less sum of shares * purchase_price, and
\* pct = profit / total_cost when total_cost > 0 and 0 otherwise.
C14_Summary ==
    Charting =>
        LET total_cost == SumOver(Counted, CostOf)
            total_current == SumOver(Counted, WorthOf)
        IN  /\ page.total_profit_text.shown
            /\ page.total_profit_text.num = total_current - total_cost
            /\ page.total_profit_text.den = 1
            /\ page.total_gain_pct_text.shown
            /\ page.total_gain_pct_text.den > 0
            /\ IF total_cost > 0
               THEN page.total_gain_pct_text.num * total_cost
                      = (total_current - total_cost) * page.total_gain_pct_text.den
               ELSE page.total_gain_pct_text.num = 0

\* C14 witness: a Summary over a holding with no shares and a counted one,
\* at a profit.
C14_Witness ==
    /\ Charting
    /\ Cardinality(Counted) = 1 /\ Len(assets) = 2
    /\ SumOver(Counted, CostOf) > 0
    /\ page.total_profit_text.num # 0

\* The retrieval calls of the last handler that went to fn.
CallsTo(log, fn) == {k \in 1..Len(log) : log[k].fn = fn}

\* C15: on_add_click appends exactly one holding, and only with a non-empty
\* uppercased ticker, shares > 0, purchase price > 0, a purchase date not
\* after today, a current price fetched, and a purchase date not before a
\* known first trade date; every other click leaves the list as it was; so
\* every holding of the list has shares > 0, price > 0 and a date <= today.
C15_AllOrNothing ==
    /\ [](\A i \in Positions :
            /\ assets[i].ticker \in Tickers
            /\ assets[i].shares > 0
            /\ assets[i].price > 0
            /\ assets[i].purchase_date \in 0..Today)
    /\ [][dialog' # "" => assets' = assets]_vars
    /\ [][Len(assets') > Len(assets) =>
            LET h == assets'[Len(assets')]
            IN  /\ dialog = "add"
                /\ assets' = Append(assets, h)
                /\ h.ticker \in Tickers
                /\ h.shares > 0 /\ h.price > 0
                /\ h.purchase_date \in 0..Today
                /\ h.current_price > 0
                /\ \E k \in CallsTo(calls', "get_current_price") :
                      calls'[k].arg = h.ticker
                /\ CallsTo(calls', "get_first_price_date") # {}
                /\ \A k \in CallsTo(calls', "get_first_price_date") :
                      calls'[k].got = NoDate \/ calls'[k].got <= h.purchase_date]_vars

\* C15 witness: a second holding added from a lower-case ticker, bought on
\* the very day of its first trade.
C15_Witness ==
    /\ handler = "on_add_click" /\ Len(assets) = 2
    /\ assets[2].ticker = "VOD"
    /\ \E k \in CallsTo(calls, "get_first_price_date") :
          calls[k].got = assets[2].purchase_date

\* C16 as stated: every rejection of invalid input (shares or price not
\* positive, a future purchase date, a purchase date before the first trade
\* date) is made before any retrieval call of the attempt.
C16_RejectedBeforeRetrieval ==
    dialog \in {Silent, NoDateMsg, FutureMsg, NumbersMsg, HistoryMsg} => calls = <<>>

\* C16 amended: a rejection for shares or price not positive or for a future
\* purchase date is made before any retrieval call; the rejection of a
\* purchase date before the first trade date is made after the current
\* price and the first trade date were fetched, and before anything else.
C16_RejectedEarlyOrOnFirstDate ==
    /\ dialog \in {Silent, NoDateMsg, FutureMsg, NumbersMsg} => calls = <<>>
    /\ dialog = HistoryMsg =>
          /\ Len(calls) >= 2
          /\ calls[1].fn = "get_current_price"
          /\ calls[Len(calls)].fn = "get_first_price_date"
          /\ calls[Len(calls)].got # NoDate
          /\ \A k \in 1..Len(calls) :
                calls[k].fn \in {"get_current_price", "get_fx_rate_to_chf",
                                 "get_first_price_date"}

\* C16 witness: a purchase date rejected for lying before the first trade.
C16_Witness == dialog = HistoryMsg /\ Len(assets) = 1

\* The value series s holds on day d: that of the latest of its dates on or
\* before d that carries a value, and 0 before the first of them.
Valued(s, d) == {j \in 1..Len(s) : s[j].d <= d /\ s[j].v # NaN}
LastValue(s, d) ==
    IF Valued(s, d) = {} THEN 0
    ELSE s[CHOOSE j \in Valued(s, d) : \A j2 \in Valued(s, d) : s[j2].d <= s[j].d].v

\* C17: on every date of the union of the series dates the total is the sum
\* over the holdings of the value each held last on or before that date, 0
\* before its first; holdings (with a purchase price) all bought on one date
\* and all charted total the sum of shares * purchase_price on that date.
C17_ForwardFilledSum ==
    Recomputed =>
        /\ \A d \in UnionDates : \E j \in 1..Len(total) : total[j].d = d
        /\ \A j \in 1..Len(total) :
              total[j].d \in UnionDates =>
                 total[j].v =
                    SumOver(Charted,
                            [i \in Positions |->
                                IF i \in Charted
                                THEN LastValue(SeriesOf(i), total[j].d) ELSE 0])
        /\ ( /\ assets # <<>> /\ Charted = Positions
             /\ \A i \in Positions :
                   /\ assets[i].price > 0
                   /\ assets[i].purchase_date = assets[1].purchase_date ) =>
              /\ total[1].d = assets[1].purchase_date
              /\ total[1].v = SumOver(Positions, CostOf)

\* C17 witness: two charted holdings, one with no value yet on a date the
\* other has, and one carried forward over a date only the other has.
C17_Witness ==
    /\ Recomputed /\ Len(series_list) = 2
    /\ \E d \in UnionDates :
          /\ d \notin Index(series_list[1].value)
          /\ Valued(series_list[1].value, d) # {}
    /\ \E d \in UnionDates : Valued(series_list[2].value, d) = {}

\* The list without its entry k.
Without(holdings, k) ==
    SubSeq(holdings, 1, k - 1) \o SubSeq(holdings, k + 1, Len(holdings))

\* C18: a delete from a card removes the holding of that card and no other,
\* also among holdings of one ticker, keeps the others in their order, and
\* the recompute that follows charts and counts the holdings left only.
C18_DeletesThatHolding ==
    [][Len(assets') < Len(assets) =>
          /\ clicked' \in 1..Len(assets)
          /\ assets' = Without(assets, clicked')
          /\ ~raised' =>
                /\ cards' = [i \in 1..Len(assets') |-> assets'[i].ticker]
                /\ Len(series_list') <= Len(assets')
                /\ Len(total') > 0 => page'.total_profit_text.shown]_vars

\* C19: each price date of a foreign-currency holding is converted at the
\* rate of the latest FX date on or before it, and a price date with no FX
\* date on or before it is not in the series of the holding (dates other
\* than the anchored purchase date, for a holding quoted in USD).
C19_LatestFxRate ==
    Recomputed =>
        \A i \in Charted :
            (InfoCurrency(assets[i].ticker) = "USD" /\ feed[i].info = "ok") =>
                \A d \in feed[i].bars :
                    d > assets[i].purchase_date =>
                        LET rates == {e \in feed[i].fx : e <= d}
                            at == {j \in 1..Len(SeriesOf(i)) : SeriesOf(i)[j].d = d}
                        IN  IF rates = {}
                            THEN at = {}
                            ELSE \E j \in at :
                                    SeriesOf(i)[j].v =
                                       assets[i].shares * NativeClose(d)
                                         * FxClose("USD", Max(rates))

\* The page before anything was shown on it.
BlankPage ==
    [total_worth_value_text |-> 0, total_gain_pct_text |-> NoText,
     total_profit_text |-> NoText, points |-> <<>>, min_x |-> 0, max_x |-> 1,
     min_y |-> 0, max_y |-> 1 * YUnit, y_labels |-> <<>>, x_labels |-> <<>>]

\* C20: after every add and every delete the page shows what one recompute
\* makes of the holdings list and the external data alone, on a page that
\* showed nothing before, whatever was added, deleted and shown earlier.
C20_OutputsOfListAndDataAlone ==
    page = update_total_worth_graph(assets, feed, BlankPage).page

\* C21: a holding whose downloaded price series has dates, and none on or
\* after its purchase date, gets no series: it adds no date and no value to
\* the total built from the series.
C21_TrimmedAwayIsDropped ==
    Recomputed =>
        \A i \in Counted :
            (feed[i].bars # {} /\ \A d \in feed[i].bars : d < assets[i].purchase_date)
                => /\ i \notin Charted
                   /\ \A j \in 1..Len(total) :
                         total[j].d \in UnionDates =>
                            total[j].v =
                               SumOver(Charted \ {i},
                                       [k \in Positions |->
                                           IF k \in Charted
                                           THEN LastValue(SeriesOf(k), total[j].d)
                                           ELSE 0])

=============================================================================
